---- MODULE Spec2Model ----
(***************************************************************************)
(* A model of red_queen/runner.py: the Runner that measures each benchmark *)
(* of the corpus (memory pass, timing pass, depth pass, per repetition),   *)
(* the depth analysis over the serialized operation list, the result store *)
(* (save_results) and the entry point's loop over the three targets.       *)
(*                                                                         *)
(* Times are whole ticks of perf_counter, memory is whole MiB.             *)
(***************************************************************************)
EXTENDS Integers, Sequences, FiniteSets, TLC

\* ------------------------------------------------------------- bounds

\* Largest corpus (number of benchmark files) and largest num_runs.
MaxCases == 2
MaxRuns == 2
\* Qubit ids are 0..MaxQubit; serialized programs have at most MaxOps lines.
MaxQubit == 1
MaxOps == 3

\* The results directory at the start holds result files with indices among
\* 1..MaxInitRuns and at most MaxOthers other regular files; at most
\* MaxLaunches runner processes and Runner runs are started.
MaxInitRuns == 3
MaxOthers == 1
MaxLaunches == 3

\* Significant bits of a floating-point number, and the longest sample the
\* statistics are computed on by themselves.
FloatBits == 3
MaxSample == 3

\* The most run_benchmarks calls made on one Runner.
MaxCalls == 2

\* The most files in a working directory's own results directory.
MaxCwdFiles == 2

\* Measured values a pass may return.
Times == {1, 2}
Mems == {7}

VARIABLES
    num_runs,           \* Runner.num_runs
    full_benchmark_list,\* Runner.full_benchmark_list, as the number of cases
    metric_data,        \* Runner.metric_data: metadata, backend, one entry per case
    second_compiler_readout, \* Runner.second_compiler_readout
    pc,                 \* where run_benchmarks is
    bi,                 \* index of the case of the outer loop
    ri,                 \* run_num + 1 of the inner loop
    qasm_string,        \* serialized artifact of the timing pass
    notices,            \* "not counted" lines printed so far
    pv,                 \* ProgressVisualizer counters
    exc,                \* the exception that ended the run, or "none"
    pool,               \* the multiprocessing.Pool of profile_func and its worker
    circuits,           \* the circuit objects: the stored ones and the passes' copies
    calls,              \* run_benchmarks calls made on the Runner
    results_dir,        \* the results directory
    proc,               \* the runner process of the entry point
    launched,           \* processes launched so far
    hist                \* the last two save_results calls

vars == <<num_runs, full_benchmark_list, metric_data, second_compiler_readout,
          pc, bi, ri, qasm_string, notices, pv, exc, pool, circuits, calls,
          results_dir, proc, launched, hist>>

runVars == <<num_runs, full_benchmark_list, metric_data, second_compiler_readout,
             pc, bi, ri, qasm_string, notices, pv, exc, pool, circuits, calls>>

\* ------------------------------------------------------ depth analysis

Qubits == 0..MaxQubit

\* Preprocess.GATE_TABLE: the recognized operation names.
\* "foo", which a line may also name, is not among them.
GATE_TABLE == {"h", "x", "cx"}

\* One line of Preprocess.processed_qasm: an operation name and its operands.
Lines ==
    [op : {"h", "x", "foo"}, qubits : {<<q>> : q \in Qubits}]
    \cup [op : {"cx"},
          qubits : {<<a, b>> : a, b \in Qubits} \ {<<q, q>> : q \in Qubits}]

\* Preprocess.get_op and Preprocess.get_qubit_id of one line.
get_op(gate) == gate.op
get_qubit_id(gate) == gate.qubits

\* A dict, in insertion order: its keys and the value of each.
EmptyDict == [keys |-> <<>>, vals |-> <<>>]

SeqRange(s) == {s[i] : i \in 1..Len(s)}

\* The inner loop of get_qubit_depths: each operand's counter, made on first use.
RECURSIVE count_qubits(_, _)
count_qubits(qubit_depth, qubit_id) ==
    IF qubit_id = <<>> THEN qubit_depth
    ELSE LET qubit == Head(qubit_id)
             d0 == IF qubit \in SeqRange(qubit_depth.keys)
                   THEN qubit_depth
                   ELSE [keys |-> Append(qubit_depth.keys, qubit),
                         vals |-> Append(qubit_depth.vals, 0)]
             k == CHOOSE i \in 1..Len(d0.keys) : d0.keys[i] = qubit
             d1 == [d0 EXCEPT !.vals[k] = @ + 1]
         IN count_qubits(d1, Tail(qubit_id))

\* Whether get_qubit_depths counts the line.
counted_all(gate) == TRUE
counted(gate) == get_op(gate) \in GATE_TABLE

\* get_qubit_depths: the per-qubit counters and the notices it prints.
RECURSIVE qubit_depths_from(_, _, _)
qubit_depths_from(processed_qasm, qubit_depth, printed) ==
    IF processed_qasm = <<>>
    THEN [qubit_depth |-> qubit_depth, printed |-> printed]
    ELSE LET gate == Head(processed_qasm)
         IN IF ~counted(gate)
            THEN qubit_depths_from(Tail(processed_qasm), qubit_depth, printed + 1)
            ELSE qubit_depths_from(Tail(processed_qasm),
                                   count_qubits(qubit_depth, get_qubit_id(gate)),
                                   printed)

get_qubit_depths(benchmark) == qubit_depths_from(benchmark, EmptyDict, 0)

MaxOf(S) == CHOOSE m \in S : \A n \in S : n <= m
MinOf(S) == CHOOSE m \in S : \A n \in S : m <= n

\* max() over the values of the dict.
max_value(vals) == MaxOf(SeqRange(vals))

\* get_maximum_qubit_depth: max() raises ValueError on an empty dict.
get_maximum_qubit_depth(benchmark) ==
    LET r == get_qubit_depths(benchmark)
        qubit_depths == r.qubit_depth
    IN IF qubit_depths.keys = <<>>
       THEN [raised |-> TRUE, max_keys |-> -1, max_value |-> -1, printed |-> r.printed]
       ELSE LET mv == max_value(qubit_depths.vals)
                first == MinOf({i \in 1..Len(qubit_depths.keys) : qubit_depths.vals[i] = mv})
            IN [raised |-> FALSE, max_keys |-> qubit_depths.keys[first],
                max_value |-> mv, printed |-> r.printed]

\* get_circuit_depth: one walk whose result is dropped, then the maximum.
get_circuit_depth(benchmark) ==
    LET r1 == get_qubit_depths(benchmark)
        r2 == get_maximum_qubit_depth(benchmark)
    IN [raised |-> r2.raised, depth |-> r2.max_value,
        printed |-> r1.printed + r2.printed]


\* ------------------------------------------------------- metric record

\* Runner.metric_list, in its order.
metric_list == <<"total_time", "build_time", "transpile_time", "depth", "memory_footprint">>

\* The entry preprocess_benchmarks makes for one case: empty samples, but for
\* the build time measured at load.
preprocess_entry(build_time) ==
    [total_time |-> <<>>, build_time |-> <<build_time>>, transpile_time |-> <<>>,
     depth |-> <<>>, memory_footprint |-> <<>>, aggregate |-> <<>>]

Last(s) == s[Len(s)]

\* run_benchmark, memory pass: the worker's result joins memory_footprint.
memory_append_skip(entry, memory) == entry
memory_append(entry, memory) ==
    [entry EXCEPT !.memory_footprint = Append(@, memory)]

\* run_benchmark, timing pass: end_time - start_time joins transpile_time, and
\* that interval plus the last build time plus the last transpile time joins
\* total_time.
timing_append_build(entry, elapsed) ==
    LET e1 == [entry EXCEPT !.transpile_time = Append(@, elapsed),
                            !.build_time = Append(@, elapsed)]
    IN [e1 EXCEPT !.total_time =
            Append(@, elapsed + Last(e1.build_time) + Last(e1.transpile_time))]
timing_append_once(entry, elapsed) ==
    LET e1 == [entry EXCEPT !.transpile_time = Append(@, elapsed)]
    IN [e1 EXCEPT !.total_time =
            Append(@, Last(e1.build_time) + Last(e1.transpile_time))]
timing_append(entry, elapsed) ==
    LET e1 == [entry EXCEPT !.transpile_time = Append(@, elapsed)]
    IN [e1 EXCEPT !.total_time =
            Append(@, elapsed + Last(e1.build_time) + Last(e1.transpile_time))]

\* run_benchmark, depth pass: the depth joins the depth sample.
depth_append(entry, depth) ==
    [entry EXCEPT !.depth = Append(@, depth)]

sample_of(entry, metric) ==
    CASE metric = "total_time" -> entry.total_time
      [] metric = "build_time" -> entry.build_time
      [] metric = "transpile_time" -> entry.transpile_time
      [] metric = "depth" -> entry.depth
      [] metric = "memory_footprint" -> entry.memory_footprint

\* ---- np.array(sample, dtype=float): binary floating point, round to nearest,
\* ties to even. A float is a whole number of the smallest unit with at most
\* FloatBits significant bits (float64 has 53).

\* The unit in the last place of a number of that size.
RECURSIVE BitLength(_)
BitLength(r) == IF r = 0 THEN 0 ELSE 1 + BitLength(r \div 2)

Ulp(r) == 2 ^ (IF BitLength(r) > FloatBits THEN BitLength(r) - FloatBits ELSE 0)

MaxFloat == 2 ^ (FloatBits + 4)

\* The representable numbers.
Floats == {r \in 0..MaxFloat : r % Ulp(r) = 0}

\* The float nearest to num/den, the one with the even significand on a tie.
RoundToFloat(num, den) ==
    LET lo == MaxOf({r \in Floats : r * den <= num})
        hi == MinOf({r \in Floats : r * den >= num})
    IN IF lo = hi THEN lo
       ELSE IF num - lo * den < hi * den - num THEN lo
       ELSE IF num - lo * den > hi * den - num THEN hi
       ELSE IF (lo \div Ulp(lo)) % 2 = 0 THEN lo ELSE hi

float_add(a, b) == RoundToFloat(a + b, 1)
float_div(a, n) == RoundToFloat(a, n)

\* np.add.reduce of a short array: the elements added from left to right,
\* each sum rounded.
RECURSIVE add_reduce(_, _)
add_reduce(acc, rest) ==
    IF rest = <<>> THEN acc ELSE add_reduce(float_add(acc, Head(rest)), Tail(rest))

\* np.mean: the rounded sum divided by the length, rounded.
np_mean(sample) == float_div(add_reduce(Head(sample), Tail(sample)), Len(sample))

\* The k-th smallest element of the sample.
KthSmallest(sample, k) ==
    CHOOSE v \in SeqRange(sample) :
        /\ Cardinality({i \in 1..Len(sample) : sample[i] < v}) < k
        /\ Cardinality({i \in 1..Len(sample) : sample[i] <= v}) >= k

\* np.median: the mean of the middle element, or of the two middle elements.
np_median(sample) ==
    LET n == Len(sample)
    IN IF n % 2 = 1
       THEN np_mean(<<KthSmallest(sample, (n + 1) \div 2)>>)
       ELSE np_mean(<<KthSmallest(sample, n \div 2), KthSmallest(sample, n \div 2 + 1)>>)

\* calculate_aggregate_statistics: one entry per metric, in metric_list's
\* order; np.min raises ValueError on the first empty sample, and the entries
\* made before it stay.
RECURSIVE aggregate_from(_, _, _)
aggregate_from(entry, k, done) ==
    IF k > Len(metric_list) THEN [raised |-> FALSE, aggregate |-> done]
    ELSE LET sample == sample_of(entry, metric_list[k])
         IN IF sample = <<>>
            THEN [raised |-> TRUE, aggregate |-> done]
            ELSE aggregate_from(entry, k + 1,
                    Append(done, [metric |-> metric_list[k],
                                  mean |-> np_mean(sample),
                                  median |-> np_median(sample),
                                  range |-> [as |-> "tuple",
                                             min |-> MinOf(SeqRange(sample)),
                                             max |-> MaxOf(SeqRange(sample))]]))

calculate_aggregate_statistics_skip(entry) == [raised |-> FALSE, entry |-> entry]
calculate_aggregate_statistics(entry) ==
    LET r == aggregate_from(entry, 1, <<>>)
    IN [raised |-> r.raised, entry |-> [entry EXCEPT !.aggregate = r.aggregate]]

\* ---------------------------------------------------------- result store

\* The string the entry point's sixth argument may be.
Flags == {"true", "false"}
Compilers == {"qiskit", "pytket"}

\* The targets of the entry point, in its order.
targets == <<"heavy_hex", "all_to_all", "linear">>

\* json.dump of a list of records: a tuple is written as an array, so every
\* range pair is a list in the text.
as_json(record) ==
    [record EXCEPT !.benchmarks =
        [b \in DOMAIN @ |->
            [@[b] EXCEPT !.aggregate =
                [k \in DOMAIN @ |-> [@[k] EXCEPT !.range.as = "list"]]]]]

JsonDump(data) == [json |-> [i \in 1..Len(data) |-> as_json(data[i])]]

\* json.load of a file's text.
JsonLoad(text) == text.json

\* The directory the relative path "results" names, which save_results hands
\* to delete_ds_store and list_files: the results directory itself when the
\* process runs in the directory of runner.py, else the working directory's
\* own results, which may not exist. The files of the results directory are
\* the result files and the other regular files.
SameCwd == [same |-> TRUE, exists |-> FALSE, files |-> 0, ds_store |-> FALSE]

own_files(dir) == Cardinality(DOMAIN dir.runs) + dir.others

listed(dir) ==
    IF dir.cwd.same
    THEN [exists |-> dir.exists, files |-> own_files(dir), ds_store |-> dir.ds_store]
    ELSE [exists |-> dir.cwd.exists, files |-> dir.cwd.files, ds_store |-> dir.cwd.ds_store]

\* list_files("results"): the regular files of that directory.
list_files(dir) ==
    listed(dir).files + (IF listed(dir).ds_store THEN 1 ELSE 0)

\* delete_ds_store("results")
delete_ds_store(dir) ==
    IF dir.cwd.same THEN [dir EXCEPT !.ds_store = FALSE]
    ELSE [dir EXCEPT !.cwd.ds_store = FALSE]

Put(f, k, v) == [i \in DOMAIN f \cup {k} |-> IF i = k THEN v ELSE f[i]]

\* The run number save_results takes from the directory's listing.
run_number_of(dir) == list_files(dir) + 1

\* What the secondary branch does when results_run{n-1}.json is not there:
\* open(..., "r") raises FileNotFoundError.
read_missing_create(dir, path, record) ==
    [raised |-> FALSE, path |-> path,
     dir |-> [dir EXCEPT !.runs = Put(@, path, JsonDump(<<record>>))]]
read_missing(dir, path, record) ==
    [raised |-> TRUE, path |-> path, dir |-> dir]

\* save_results: the directory after the call, the index of the file it
\* read or wrote, and whether it raised. os.listdir raises FileNotFoundError
\* when the directory it is to list does not exist.
save_results(dir, flag, record) ==
    LET d1 == [dir EXCEPT !.exists = TRUE]
        d2 == delete_ds_store(d1)
        run_number == run_number_of(d2)
    IN IF ~listed(d2).exists
       THEN [raised |-> TRUE, path |-> 0, dir |-> d2]
       ELSE IF flag = "true"
       THEN LET path == run_number - 1
            IN IF path \notin DOMAIN d2.runs
               THEN read_missing(d2, path, record)
               ELSE LET data == JsonLoad(d2.runs[path])
                    IN [raised |-> FALSE, path |-> path,
                        dir |-> [d2 EXCEPT !.runs[path] =
                                    JsonDump(Append(data, record))]]
       ELSE [raised |-> FALSE, path |-> run_number,
             dir |-> [d2 EXCEPT !.runs =
                         Put(@, run_number, JsonDump(<<record>>))]]


\* ------------------------------------------------------------ the Runner

\* Serialized artifacts the timing pass of a run may produce: the spec's
\* example, and a program none of whose operations is in the gate table.
QasmChoices ==
    { << [op |-> "h", qubits |-> <<0>>],
         [op |-> "cx", qubits |-> <<0, 1>>],
         [op |-> "x", qubits |-> <<1>>] >>,
      << [op |-> "foo", qubits |-> <<0>>] >> }

\* Every serialized program of at most MaxOps lines.
AllQasm == UNION {[1..n -> Lines] : n \in 0..MaxOps}

OldRecord ==
    [metadata |-> "qiskit", backend |-> "linear", benchmarks |-> <<>>]

NoDir == [exists |-> FALSE, runs |-> <<>>, others |-> 0, ds_store |-> FALSE,
          cwd |-> SameCwd]

\* Results directories a single Runner is started on.
RunDirs ==
    {NoDir, [exists |-> TRUE, runs |-> Put(<<>>, 1, JsonDump(<<OldRecord>>)),
             others |-> 0, ds_store |-> FALSE, cwd |-> SameCwd]}

NoProc == [pc |-> "none", compiler |-> "qiskit", backend_arg |-> "none", flag |-> "false",
           ti |-> 1, built |-> 0, writes |-> 0, after |-> "none"]

NoException == [type |-> "none", in |-> "none"]

NoneLaunched == [count |-> 0, last |-> "none"]

\* ---- the pool of profile_func

\* No pool: before the first profile_func, and after each one.
NoPool == [state |-> "closed", workers |-> 0, created |-> 0, compiles |-> 0,
           task |-> "none", result |-> 0]

\* multiprocessing.Pool(1) and pool.apply: one more worker process, and the
\* task sent to it; the caller waits for the result.
open_pool(p) ==
    [state |-> "open", workers |-> p.workers + 1, created |-> 1, compiles |-> 0,
     task |-> "sent", result |-> 0]

\* The end of the with block: Pool.__exit__ is terminate(), which stops the
\* worker; what the call did stays on record.
terminate_keep(p) == [p EXCEPT !.state = "closed"]
terminate(p) == [p EXCEPT !.state = "closed", !.workers = 0]

\* ---- the circuit objects

\* The objects are numbered as they are made; heap[i] is the number of
\* compiles applied to object i. preprocess_benchmarks makes one circuit per
\* case and stores it in full_benchmark_list.
LoadCircuits(n) ==
    [stored |-> [b \in 1..n |-> b], heap |-> [b \in 1..n |-> 0],
     memory_arg |-> 0, timing_arg |-> 0, transpiled |-> 0, serialized |-> 0]

\* copy.deepcopy: a new object equal to the one copied.
deepcopy_alias(heap, ref) == [heap |-> heap, ref |-> ref]
deepcopy(heap, ref) == [heap |-> Append(heap, heap[ref]), ref |-> Len(heap) + 1]

\* The memory pass hands profile_func a deep copy of the stored circuit; the
\* worker compiles what it unpickles in its own process, so no object of
\* this process changes.
memory_copy(c, b) ==
    LET d == deepcopy(c.heap, c.stored[b])
    IN [c EXCEPT !.heap = d.heap, !.memory_arg = d.ref]

\* The timing pass compiles a deep copy of the stored circuit: pytket's pass
\* manager changes its argument in place, qiskit's transpile leaves it and
\* returns a new circuit, which transpiled_circuit names.
timing_copy(c, b, compiler) ==
    LET d == deepcopy(c.heap, c.stored[b])
    IN IF compiler = "pytket"
       THEN [c EXCEPT !.heap = [d.heap EXCEPT ![d.ref] = @ + 1], !.timing_arg = d.ref,
                      !.transpiled = 0]
       ELSE [c EXCEPT !.heap = Append(d.heap, d.heap[d.ref] + 1), !.timing_arg = d.ref,
                      !.transpiled = Len(d.heap) + 1]

\* The object the depth pass serializes: benchmark_copy for pytket, the
\* circuit transpile returned for qiskit.
artifact_ref_memory(c, compiler) == c.memory_arg
artifact_ref(c, compiler) == IF compiler = "pytket" THEN c.timing_arg ELSE c.transpiled

depth_serialize(c, compiler) ==
    LET ref == artifact_ref(c, compiler)
    IN [c EXCEPT !.transpiled = ref, !.serialized = ref]

\* The objects after k repetitions of case b.
RECURSIVE CopiesAfter(_, _, _, _)
CopiesAfter(c, b, compiler, k) ==
    IF k = 0 THEN c
    ELSE CopiesAfter(depth_serialize(timing_copy(memory_copy(c, b), b, compiler), compiler),
                     b, compiler, k - 1)

\* Runner.__init__ with preprocess_benchmarks: the state after construction.
InitRunner(n, runs, compiler, backend, flag, build_times) ==
    /\ num_runs = runs
    /\ full_benchmark_list = n
    /\ metric_data = [metadata |-> compiler, backend |-> backend,
                      benchmarks |-> [b \in 1..n |-> preprocess_entry(build_times[b])]]
    /\ second_compiler_readout = flag
    /\ pv = [total_operations |-> n * runs, current_operation |-> 0, stage |-> "none"]
    /\ circuits = LoadCircuits(n)
    /\ notices = 0
    /\ exc = NoException

Init ==
    /\ \E n \in 0..MaxCases, runs \in 0..MaxRuns, compiler \in Compilers, flag \in Flags :
         \E build_times \in [1..n -> Times] :
            InitRunner(n, runs, compiler, targets[1], flag, build_times)
    /\ pc = "constructed"
    /\ bi = 0
    /\ ri = 0
    /\ qasm_string = <<>>
    /\ pool = NoPool
    /\ calls = 0
    /\ results_dir \in RunDirs
    /\ proc = NoProc
    /\ launched = NoneLaunched
    /\ hist = <<>>

storeVars == <<results_dir, proc, launched, hist>>

\* start_run: one more operation begun.
start_run_skip(p) == p
start_run(p) == [p EXCEPT !.current_operation = @ + 1]

\* The head of the outer loop's body for case b: start_benchmark, then either
\* the first start_run or, with no runs, straight to the statistics.
BeginCase_timing(b) ==
    /\ bi' = b
    /\ IF num_runs = 0
       THEN /\ pc' = "aggregate"
            /\ ri' = 0
            /\ pv' = pv
       ELSE /\ pc' = "timing"
            /\ ri' = 1
            /\ pv' = [pv EXCEPT !.current_operation = @ + 1]
BeginCase(b) ==
    /\ bi' = b
    /\ IF num_runs = 0
       THEN /\ pc' = "aggregate"
            /\ ri' = 0
            /\ pv' = pv
       ELSE /\ pc' = "memory"
            /\ ri' = 1
            /\ pv' = start_run(pv)

\* run_benchmarks from its first line to the first pass.
EnterBenchmarks ==
    /\ calls' = calls + 1
    /\ IF full_benchmark_list = 0
       THEN pc' = "summary" /\ UNCHANGED <<bi, ri, pv>>
       ELSE BeginCase(1)
    /\ UNCHANGED <<num_runs, full_benchmark_list, metric_data, second_compiler_readout,
                   qasm_string, notices, exc, pool, circuits>>
    /\ UNCHANGED storeVars

\* The run_benchmarks call the entry point makes on a new Runner.
StartBenchmarks ==
    /\ pc = "constructed"
    /\ EnterBenchmarks

\* An exception nothing catches: the process ends with a traceback.
Raise(type, where) ==
    /\ pc' = "failed"
    /\ exc' = [type |-> type, in |-> where]

\* run_benchmark, memory pass, up to where it waits: the stage notice, the
\* deep copy, the pool and the task sent to its worker.
ProfileStart ==
    /\ pc = "memory"
    /\ pv' = [pv EXCEPT !.stage = "memory"]
    /\ circuits' = memory_copy(circuits, bi)
    /\ pool' = open_pool(pool)
    /\ pc' = "profiling"
    /\ UNCHANGED <<num_runs, full_benchmark_list, metric_data, second_compiler_readout,
                   bi, ri, qasm_string, notices, exc, calls>>
    /\ UNCHANGED storeVars

\* The worker process runs transpile_in_process once: it returns the memory
\* difference, or the compile raises and the exception is sent back, or the
\* process dies (killed, out of memory) and sends nothing.
WorkerCompile ==
    /\ pool.state = "open"
    /\ pool.task = "sent"
    /\ pool.workers >= 1
    /\ \/ \E memory \in Mems :
            pool' = [pool EXCEPT !.task = "ok", !.result = memory, !.compiles = @ + 1]
       \/ pool' = [pool EXCEPT !.task = "error", !.compiles = @ + 1]
       \/ pool' = [pool EXCEPT !.task = "lost", !.compiles = @ + 1, !.workers = @ - 1]
    /\ UNCHANGED <<num_runs, full_benchmark_list, metric_data, second_compiler_readout,
                   pc, bi, ri, qasm_string, notices, pv, exc, circuits, calls>>
    /\ UNCHANGED storeVars

\* The pool's handler thread replaces a worker that has died; the task the
\* dead worker held is not sent again, and pool.apply keeps waiting.
PoolRepopulate ==
    /\ pool.state = "open"
    /\ pool.workers < 1
    /\ pool' = [pool EXCEPT !.workers = 1, !.created = @ + 1]
    /\ UNCHANGED <<num_runs, full_benchmark_list, metric_data, second_compiler_readout,
                   pc, bi, ri, qasm_string, notices, pv, exc, circuits, calls>>
    /\ UNCHANGED storeVars

\* run_benchmark, memory pass, from the worker's answer on: pool.apply
\* returns or raises what the worker sent, the with block ends the pool, and
\* a result joins memory_footprint.
MemoryPass ==
    /\ pc = "profiling"
    /\ pool.task \in {"ok", "error"}
    /\ pool' = terminate(pool)
    /\ IF pool.task = "ok"
       THEN /\ metric_data' = [metric_data EXCEPT
                                  !.benchmarks[bi] = memory_append(@, pool.result)]
            /\ pc' = "timing"
            /\ exc' = exc
       ELSE /\ Raise("WorkerError", "profile_func")
            /\ metric_data' = metric_data
    /\ UNCHANGED <<num_runs, full_benchmark_list, second_compiler_readout,
                   bi, ri, qasm_string, notices, pv, circuits, calls>>
    /\ UNCHANGED storeVars

\* run_benchmark, timing pass: the stage notice, then the compile of a second
\* deep copy, timed.
TimingPass ==
    /\ pc = "timing"
    /\ \E elapsed \in Times, artifact \in QasmChoices :
         /\ metric_data' = [metric_data EXCEPT !.benchmarks[bi] = timing_append(@, elapsed)]
         /\ qasm_string' = artifact
    /\ pv' = [pv EXCEPT !.stage = "timing"]
    /\ circuits' = timing_copy(circuits, bi, metric_data.metadata)
    /\ pc' = "depth"
    /\ UNCHANGED <<num_runs, full_benchmark_list, second_compiler_readout,
                   bi, ri, notices, exc, pool, calls>>
    /\ UNCHANGED storeVars

\* run_benchmark, depth pass, and the step of the inner loop after it.
DepthPass ==
    /\ pc = "depth"
    /\ LET r == get_circuit_depth(qasm_string)
       IN /\ notices' = notices + r.printed
          /\ IF r.raised
             THEN /\ Raise("ValueError", "get_maximum_qubit_depth")
                  /\ pv' = [pv EXCEPT !.stage = "depth"]
                  /\ UNCHANGED <<metric_data, ri>>
             ELSE /\ metric_data' = [metric_data EXCEPT
                                        !.benchmarks[bi] = depth_append(@, r.depth)]
                  /\ exc' = exc
                  /\ IF ri < num_runs
                     THEN /\ ri' = ri + 1
                          /\ pv' = start_run([pv EXCEPT !.stage = "depth"])
                          /\ pc' = "memory"
                     ELSE /\ pc' = "aggregate"
                          /\ pv' = [pv EXCEPT !.stage = "depth"]
                          /\ ri' = ri
    /\ circuits' = depth_serialize(circuits, metric_data.metadata)
    /\ UNCHANGED <<num_runs, full_benchmark_list, second_compiler_readout, bi, qasm_string,
                   pool, calls>>
    /\ UNCHANGED storeVars

\* calculate_aggregate_statistics and complete_benchmark for the case, and the
\* step of the outer loop after them.
Aggregate ==
    /\ pc = "aggregate"
    /\ LET r == calculate_aggregate_statistics(metric_data.benchmarks[bi])
       IN /\ metric_data' = [metric_data EXCEPT !.benchmarks[bi] = r.entry]
          /\ IF r.raised
             THEN /\ Raise("ValueError", "calculate_aggregate_statistics")
                  /\ UNCHANGED <<bi, ri, pv>>
             ELSE /\ exc' = exc
                  /\ IF bi < full_benchmark_list
                     THEN BeginCase(bi + 1)
                     ELSE pc' = "summary" /\ UNCHANGED <<bi, ri, pv>>
    /\ UNCHANGED <<num_runs, full_benchmark_list, second_compiler_readout,
                   qasm_string, notices, pool, circuits, calls>>
    /\ UNCHANGED storeVars

\* print_summary: elapsed_time / total_operations raises ZeroDivisionError
\* when there are no operations.
PrintSummary ==
    /\ pc = "summary"
    /\ IF pv.total_operations = 0
       THEN Raise("ZeroDivisionError", "print_summary")
       ELSE pc' = "save" /\ exc' = exc
    /\ UNCHANGED <<num_runs, full_benchmark_list, metric_data, second_compiler_readout,
                   bi, ri, qasm_string, notices, pv, pool, circuits, calls>>
    /\ UNCHANGED storeVars

\* One save_results call, as the history keeps it: its arguments, its outcome,
\* and the result files and the number of files the results directory held
\* when it was called.
SaveEvent(flag, record, r, by, dir) ==
    [flag |-> flag, record |-> record, raised |-> r.raised, path |-> r.path, by |-> by,
     before |-> dir.runs, own_files |-> own_files(dir)]

Remember(event) == IF hist = <<>> THEN <<event>> ELSE <<Last(hist), event>>

\* The save_results call that ends run_benchmarks.
SaveResults ==
    /\ pc = "save"
    /\ LET r == save_results(results_dir, second_compiler_readout, metric_data)
       IN /\ results_dir' = r.dir
          /\ hist' = Remember(SaveEvent(second_compiler_readout, metric_data, r,
                                           "runner", results_dir))
          /\ IF r.raised
             THEN Raise("FileNotFoundError", "save_results")
             ELSE pc' = "done" /\ exc' = exc
    /\ UNCHANGED <<num_runs, full_benchmark_list, metric_data, second_compiler_readout,
                   bi, ri, qasm_string, notices, pv, pool, circuits, calls, proc, launched>>

Next ==
    \/ StartBenchmarks
    \/ ProfileStart
    \/ WorkerCompile
    \/ PoolRepopulate
    \/ MemoryPass
    \/ TimingPass
    \/ DepthPass
    \/ Aggregate
    \/ PrintSummary
    \/ SaveResults

Spec == Init /\ [][Next]_vars


\* ------------------------------------------- a run that goes on when it can

\* A Runner of one case. Every process and thread of the run is scheduled:
\* the orchestrator, the worker and the pool's handler take the steps they
\* can take.
InitProfile ==
    /\ \E runs \in 1..MaxRuns, compiler \in Compilers, flag \in Flags, build_time \in Times :
         InitRunner(1, runs, compiler, targets[1], flag, <<build_time>>)
    /\ pc = "constructed"
    /\ bi = 0
    /\ ri = 0
    /\ qasm_string = <<>>
    /\ pool = NoPool
    /\ calls = 0
    /\ results_dir \in RunDirs
    /\ proc = NoProc
    /\ launched = NoneLaunched
    /\ hist = <<>>

SpecProfile == InitProfile /\ [][Next]_vars /\ WF_vars(Next)

\* ------------------------------------------- a Runner that is run again

\* run_benchmarks called once more on a Runner whose run has ended: nothing
\* in the class prevents it, and the samples and the counters are as the
\* run before left them.
RunAgain ==
    /\ pc = "done"
    /\ calls < MaxCalls
    /\ EnterBenchmarks

NextAgain ==
    \/ Next
    \/ RunAgain

SpecAgain == InitProfile /\ [][NextAgain]_vars

\* ------------------------------------------- the depth pass on any program

\* A Runner of one case and one run at its depth pass, the timing pass
\* having produced any program of at most MaxOps lines.
InitDepth ==
    /\ num_runs = 1
    /\ full_benchmark_list = 1
    /\ \E memory \in {MinOf(Mems)}, elapsed \in {MinOf(Times)}, build_time \in {MinOf(Times)} :
         metric_data =
            [metadata |-> "qiskit", backend |-> targets[1],
             benchmarks |->
                << timing_append(memory_append(preprocess_entry(build_time), memory),
                                 elapsed) >>]
    /\ second_compiler_readout = "false"
    /\ pv = [total_operations |-> 1, current_operation |-> 1, stage |-> "timing"]
    /\ pool = NoPool
    /\ circuits = timing_copy(memory_copy(LoadCircuits(1), 1), 1, "qiskit")
    /\ calls = 1
    /\ notices = 0
    /\ exc = NoException
    /\ pc = "depth"
    /\ bi = 1
    /\ ri = 1
    /\ qasm_string \in AllQasm
    /\ results_dir = NoDir
    /\ proc = NoProc
    /\ launched = NoneLaunched
    /\ hist = <<>>

NextDepth ==
    \/ DepthPass
    \/ Aggregate
    \/ PrintSummary
    \/ SaveResults

SpecDepth == InitDepth /\ [][NextDepth]_vars

\* ------------------------------------- the statistics on any timing sample

\* Intervals of perf_counter the timing pass may measure, as floats.
TimeFloats == {r \in Floats : 5 <= r /\ r <= 15}

\* A Runner of one case whose N repetitions are done, the timing pass having
\* measured any N intervals and the build having taken one unit; the
\* statistics come next.
InitStats ==
    /\ num_runs \in 1..MaxSample
    /\ full_benchmark_list = 1
    /\ \E elapsed \in [1..num_runs -> TimeFloats] :
         metric_data =
            [metadata |-> "qiskit", backend |-> targets[1],
             benchmarks |->
                << [total_time |->
                       [i \in 1..num_runs |->
                           float_add(float_add(elapsed[i], 1), elapsed[i])],
                    build_time |-> <<1>>,
                    transpile_time |-> elapsed,
                    depth |-> [i \in 1..num_runs |-> 2],
                    memory_footprint |-> [i \in 1..num_runs |-> MinOf(Mems)],
                    aggregate |-> <<>>] >>]
    /\ second_compiler_readout = "false"
    /\ pv = [total_operations |-> num_runs, current_operation |-> num_runs,
              stage |-> "depth"]
    /\ pool = NoPool
    /\ circuits = CopiesAfter(LoadCircuits(1), 1, "qiskit", num_runs)
    /\ calls = 1
    /\ notices = 0
    /\ exc = NoException
    /\ pc = "aggregate"
    /\ bi = 1
    /\ ri = num_runs
    /\ qasm_string = << [op |-> "h", qubits |-> <<0>>],
                        [op |-> "cx", qubits |-> <<0, 1>>],
                        [op |-> "x", qubits |-> <<1>>] >>
    /\ results_dir = NoDir
    /\ proc = NoProc
    /\ launched = NoneLaunched
    /\ hist = <<>>

NextStats ==
    \/ Aggregate
    \/ PrintSummary
    \/ SaveResults

SpecStats == InitStats /\ [][NextStats]_vars

\* ------------------------------------------- the entry point and the store

\* The per-case data of a run that went through: one case, one repetition.
CompletedBenchmarks ==
    << calculate_aggregate_statistics(
          depth_append(timing_append(memory_append(preprocess_entry(1), 7), 1), 2)).entry >>

\* The record a Runner for this compiler and target holds after its runs.
RunRecord(compiler, backend) ==
    [metadata |-> compiler, backend |-> backend, benchmarks |-> CompletedBenchmarks]

\* The target names the command line may give as its fourth argument.
BackendArgs == {"FakeWashingtonV2", "linear"}

\* The results directories the first process may find: none, or one with any
\* of the result files 1..MaxInitRuns, each of one record, up to MaxOthers
\* other files, and perhaps a .DS_Store.
InitDirs ==
    {NoDir} \cup
    { [exists |-> TRUE,
       runs |-> [i \in S |-> JsonDump(<<OldRecord>>)],
       others |-> o, ds_store |-> d, cwd |-> SameCwd] :
         S \in SUBSET (1..MaxInitRuns), o \in 0..MaxOthers, d \in BOOLEAN }

\* What "results" may name when the process runs elsewhere: nothing, or a
\* directory of up to MaxCwdFiles files, perhaps with a .DS_Store.
OtherCwds ==
    {[same |-> FALSE, exists |-> FALSE, files |-> 0, ds_store |-> FALSE]} \cup
    [same : {FALSE}, exists : {TRUE}, files : 0..MaxCwdFiles, ds_store : BOOLEAN]

\* The results directories a process may find, wherever it runs: none, or
\* one with the result files 1..k, and "results" naming it or another.
CwdDirs ==
    { [d EXCEPT !.cwd = c] :
        d \in {NoDir} \cup
              { [exists |-> TRUE, runs |-> [i \in 1..k |-> JsonDump(<<OldRecord>>)],
                 others |-> 0, ds_store |-> FALSE, cwd |-> SameCwd] : k \in 0..MaxInitRuns },
        c \in {SameCwd} \cup OtherCwds }

StoreStart(dirs) ==
    /\ num_runs = 1
    /\ full_benchmark_list = 0
    /\ metric_data = [metadata |-> "qiskit", backend |-> targets[1], benchmarks |-> <<>>]
    /\ second_compiler_readout = "false"
    /\ pv = [total_operations |-> 0, current_operation |-> 0, stage |-> "none"]
    /\ pool = NoPool
    /\ circuits = LoadCircuits(0)
    /\ calls = 0
    /\ notices = 0
    /\ exc = NoException
    /\ pc = "idle"
    /\ bi = 0
    /\ ri = 0
    /\ qasm_string = <<>>
    /\ results_dir \in dirs
    /\ proc = NoProc
    /\ launched = NoneLaunched
    /\ hist = <<>>

InitStore == StoreStart(InitDirs)

\* python runner.py compiler version level backend runs flag: a new process,
\* started when none is running.
Launch ==
    /\ proc.pc # "running"
    /\ launched.count < MaxLaunches
    /\ \E compiler \in Compilers, backend_arg \in BackendArgs, flag \in Flags :
         proc' = [pc |-> "running", compiler |-> compiler, backend_arg |-> backend_arg,
                  flag |-> flag, ti |-> 1, built |-> 0, writes |-> 0,
                  after |-> launched.last]
    /\ launched' = [launched EXCEPT !.count = @ + 1]
    /\ UNCHANGED <<results_dir, hist>>
    /\ UNCHANGED runVars

\* How a process stands after one more target's save.
after_save(p, raised) ==
    IF raised
    THEN [p EXCEPT !.pc = "failed", !.built = @ + 1]
    ELSE [p EXCEPT !.built = @ + 1, !.writes = @ + 1,
                   !.ti = @ + 1,
                   !.pc = IF p.ti = Len(targets) THEN "exited" ELSE "running"]

\* One pass of the entry point's loop: a Runner for the next target, its
\* run_benchmarks, and the save_results that ends it.
MainIteration ==
    /\ proc.pc = "running"
    /\ LET record == RunRecord(proc.compiler, targets[proc.ti])
           r == save_results(results_dir, proc.flag, record)
           p == after_save(proc, r.raised)
       IN /\ results_dir' = r.dir
          /\ hist' = Remember(SaveEvent(proc.flag, record, r, "main", results_dir))
          /\ proc' = p
          /\ launched' = [launched EXCEPT !.last =
                            IF p.pc = "running" THEN @
                            ELSE IF p.pc = "failed" THEN "failed"
                            ELSE IF p.flag = "true" THEN "secondary" ELSE "primary"]
    /\ UNCHANGED runVars

\* A Runner that a caller other than the entry point makes for one target and
\* runs to its save_results.
RunnerRun ==
    /\ proc.pc # "running"
    /\ launched.count < MaxLaunches
    /\ \E compiler \in Compilers, flag \in Flags :
         LET record == RunRecord(compiler, targets[1])
             r == save_results(results_dir, flag, record)
         IN /\ results_dir' = r.dir
            /\ hist' = Remember(SaveEvent(flag, record, r, "runner", results_dir))
    /\ launched' = [count |-> launched.count + 1, last |-> "runner"]
    /\ UNCHANGED proc
    /\ UNCHANGED runVars

NextStore ==
    \/ Launch
    \/ MainIteration
    \/ RunnerRun

SpecStore == InitStore /\ [][NextStore]_vars

\* The entry point and the store, the process running in any directory.
InitCwd == StoreStart(CwdDirs)

SpecCwd == InitCwd /\ [][NextStore]_vars

\* ------------------------------------------------------------- claims

\* The highest index among result files, 0 when there are none.
TopIndex(runs) == IF DOMAIN runs = {} THEN 0 ELSE MaxOf(DOMAIN runs)

IsSecondary(e) == e.flag = "true"

\* The last save_results call.
LastSave == Last(hist)

\* C1, as claimed: every result file holds one record or two, never more.
C1_FilesHoldOneOrTwoRecords ==
    \A i \in DOMAIN results_dir.runs : Len(JsonLoad(results_dir.runs[i])) \in {1, 2}

\* C2, as claimed: a primary save of P and then a secondary save of S leave
\* the file the primary save wrote holding P and S, in that order, as JSON
\* reads them back.
C2_PrimaryThenSecondaryGivesPair ==
    (Len(hist) = 2 /\ ~IsSecondary(hist[1]) /\ ~hist[1].raised /\ IsSecondary(hist[2])) =>
        /\ ~hist[2].raised
        /\ hist[2].path = hist[1].path
        /\ JsonLoad(results_dir.runs[hist[1].path])
              = JsonLoad(JsonDump(<<hist[1].record, hist[2].record>>))

\* C5: a secondary save called when the directory holds no result file raises
\* and leaves the directory without result files; the process of the entry
\* point that made the call has failed.
C5_SecondaryWithoutFileFailsAndWritesNothing ==
    (hist # <<>> /\ IsSecondary(LastSave) /\ DOMAIN LastSave.before = {}) =>
        /\ LastSave.raised
        /\ DOMAIN results_dir.runs = {}
        /\ (LastSave.by = "main" /\ proc.built >= 1) => proc.pc = "failed"

\* C5, witness: a secondary process found a directory with a stray file and
\* no result file, its first save raised, and the process has failed.
C5_Witness ==
    /\ hist # <<>>
    /\ IsSecondary(LastSave)
    /\ DOMAIN LastSave.before = {}
    /\ LastSave.raised
    /\ LastSave.by = "main"
    /\ proc.pc = "failed"
    /\ results_dir.others >= 1

\* C6, as claimed: each save of a secondary process that follows a primary
\* process appends to the file the primary process wrote for the same target,
\* which is the highest-indexed file, and changes no other file.
C6_SecondaryAppendsToPairedPrimary ==
    (proc.flag = "true" /\ proc.after = "primary" /\ proc.built >= 1
        /\ hist # <<>> /\ LastSave.by = "main") =>
        /\ ~LastSave.raised
        /\ LastSave.path = TopIndex(LastSave.before)
        /\ \E compiler \in Compilers :
              JsonLoad(LastSave.before[LastSave.path])
                 = JsonLoad(JsonDump(<<RunRecord(compiler, LastSave.record.backend)>>))
        /\ JsonLoad(results_dir.runs[LastSave.path])
              = JsonLoad(JsonDump(Append(JsonLoad(LastSave.before[LastSave.path]),
                                         LastSave.record)))
        /\ \A i \in DOMAIN LastSave.before \ {LastSave.path} :
              results_dir.runs[i] = LastSave.before[i]

\* C7, as claimed: a primary save writes the file one past the highest index
\* there was, which is a new file, and two primary saves in a row write
\* increasing indices.
C7_PrimaryWritesOnePastHighest ==
    /\ (hist # <<>> /\ ~IsSecondary(LastSave) /\ ~LastSave.raised) =>
          /\ LastSave.path = TopIndex(LastSave.before) + 1
          /\ LastSave.path \notin DOMAIN LastSave.before
    /\ (Len(hist) = 2 /\ ~IsSecondary(hist[1]) /\ ~IsSecondary(hist[2])
           /\ ~hist[1].raised /\ ~hist[2].raised) =>
          hist[2].path > hist[1].path

\* C8, as claimed: a process that has run to its end built one record, for the
\* target its arguments name, and wrote once.
C8_OneRecordAndOneWritePerProcess ==
    (proc.pc = "exited" /\ LastSave.by = "main") =>
        /\ proc.built = 1
        /\ proc.writes = 1
        /\ LastSave.record.backend = proc.backend_arg

\* The samples of case b.
Entry(b) == metric_data.benchmarks[b]

\* Case b has been through all its repetitions.
CaseComplete(b) ==
    /\ b \in 1..full_benchmark_list
    /\ \/ b < bi
       \/ b = bi /\ pc \in {"aggregate", "summary", "save", "done"}
       \/ b = bi /\ pc = "failed"
                 /\ exc.in \in {"calculate_aggregate_statistics", "print_summary", "save_results"}

\* C3, as claimed: after a full run of a case with N >= 1 repetitions each of
\* the five samples has length N.
C3_AllFiveSamplesHaveLengthN ==
    \A b \in 1..full_benchmark_list :
        (num_runs >= 1 /\ CaseComplete(b)) =>
            \A k \in 1..Len(metric_list) : Len(sample_of(Entry(b), metric_list[k])) = num_runs

\* C3, amended: after a full run of a case with N >= 1 repetitions the
\* total_time, transpile_time, depth and memory_footprint samples have length
\* N, and the build_time sample has length 1.
C3_RepetitionSamplesHaveLengthN ==
    \A b \in 1..full_benchmark_list :
        (num_runs >= 1 /\ CaseComplete(b)) =>
            /\ Len(Entry(b).total_time) = num_runs
            /\ Len(Entry(b).transpile_time) = num_runs
            /\ Len(Entry(b).depth) = num_runs
            /\ Len(Entry(b).memory_footprint) = num_runs
            /\ Len(Entry(b).build_time) = 1

\* C3, witness: a run with the largest repetition count has gone through
\* its first case and reached its end.
C3_Witness ==
    /\ pc = "done"
    /\ num_runs = MaxRuns
    /\ full_benchmark_list >= 1
    /\ CaseComplete(1)

TouchCount(q, qb) ==
    Cardinality({i \in 1..Len(q) : q[i].op \in GATE_TABLE /\ qb \in SeqRange(q[i].qubits)})

\* The largest such number over all qubit ids.
MaxTouchCount(q) == MaxOf({TouchCount(q, qb) : qb \in Qubits})

InsertAt(q, k, line) == SubSeq(q, 1, k) \o <<line>> \o SubSeq(q, k + 1, Len(q))

\* The last depth of the current case was computed from qasm_string.
DepthRecorded ==
    /\ bi >= 1
    /\ pc \in {"memory", "profiling", "timing", "aggregate", "summary", "save", "done"}
    /\ Len(Entry(bi).depth) >= 1
    /\ Len(Entry(bi).depth) = Len(Entry(bi).transpile_time)

\* C9: the depth the depth pass records is the largest number, over the qubit
\* ids, of gate-table operations on that qubit; and for the program a depth
\* pass is about to read, a line with an operation outside the gate table, put
\* anywhere in it, leaves the depth as it is.
C9_DepthIsBusiestQubitCount ==
    /\ DepthRecorded => Last(Entry(bi).depth) = MaxTouchCount(qasm_string)
    /\ pc = "depth" =>
          LET base == get_circuit_depth(qasm_string)
          IN ~base.raised =>
                \A k \in 0..Len(qasm_string), line \in {l \in Lines : l.op \notin GATE_TABLE} :
                    LET more == get_circuit_depth(InsertAt(qasm_string, k, line))
                    IN ~more.raised /\ more.depth = base.depth

\* C9, witness: the depth pass has recorded 2 for h q0; cx q0,q1; x q1.
C9_Witness ==
    /\ DepthRecorded
    /\ qasm_string = << [op |-> "h", qubits |-> <<0>>],
                        [op |-> "cx", qubits |-> <<0, 1>>],
                        [op |-> "x", qubits |-> <<1>> ] >>
    /\ Last(Entry(bi).depth) = 2

\* C10, as claimed: the depth pass never ends the run; whatever the program,
\* a depth is returned and joins the depth sample.
C10_DepthPassNeverAborts ==
    ~(pc = "failed" /\ exc.in = "get_maximum_qubit_depth")

\* The lines of program q whose operation is not in the gate table.
UnknownLines(q) == Cardinality({i \in 1..Len(q) : q[i].op \notin GATE_TABLE})

\* C11, as claimed: one depth computation prints one notice for each line
\* whose operation is not in the gate table.
C11_OneNoticePerUnknownLine ==
    pc # "depth" => notices = UnknownLines(qasm_string)

\* C12: the build_time sample of every case holds one value in every state of
\* a run, and no step of the run changes it.
C12_BuildTimeHoldsOneValue ==
    /\ [](\A b \in 1..full_benchmark_list : Len(Entry(b).build_time) = 1)
    /\ [][\A b \in 1..full_benchmark_list :
             metric_data'.benchmarks[b].build_time = Entry(b).build_time]_vars

\* C12, witness: the second repetition of a case has been through its timing
\* pass and the build_time sample still holds one value.
C12_Witness ==
    /\ pc = "depth"
    /\ ri = 2
    /\ Len(Entry(bi).transpile_time) = 2
    /\ Len(Entry(bi).build_time) = 1

\* C13, as claimed: whenever the statistics of a case are about to be
\* computed, each of its five samples is non-empty.
C13_AggregateNeverSeesEmptySample ==
    pc = "aggregate" =>
        \A k \in 1..Len(metric_list) : sample_of(Entry(bi), metric_list[k]) # <<>>

\* C14, as claimed: in every aggregate entry the median and the mean lie
\* between the smallest and the largest value of the sample.
C14_MedianAndMeanWithinRange ==
    \A b \in 1..full_benchmark_list :
        \A k \in 1..Len(Entry(b).aggregate) :
            LET a == Entry(b).aggregate[k]
            IN /\ a.range.min <= a.median /\ a.median <= a.range.max
               /\ a.range.min <= a.mean /\ a.mean <= a.range.max

\* C15: at most one worker exists; outside a profile_func call none exists
\* and the pool is closed, so no timing or depth pass runs beside a worker; a
\* call that has returned or raised made one worker, which ran one compile;
\* and every call starts from no worker and makes its own.
C15_OneWorkerPerProfilingCall ==
    /\ [](/\ pool.workers <= 1
          /\ pc # "profiling" => (pool.workers = 0 /\ pool.state = "closed")
          /\ (pool.state = "closed" /\ pool.created >= 1) =>
                (pool.created = 1 /\ pool.compiles = 1))
    /\ [][(pc = "memory" /\ pc' = "profiling") =>
             (pool.workers = 0 /\ pool'.workers = 1 /\ pool'.compiles = 0)]_vars

\* C15, witness: the second profiling call of a case has returned; its worker
\* ran one compile and is gone, and the timing pass is next.
C15_Witness ==
    /\ pc = "timing"
    /\ ri = 2
    /\ Len(Entry(bi).memory_footprint) = 2
    /\ pool.state = "closed"
    /\ pool.workers = 0
    /\ pool.compiles = 1

\* The worker of the profiling call under way has failed: its compile raised,
\* or the process died.
WorkerFailed == pc = "profiling" /\ pool.task \in {"error", "lost"}

\* The run has ended with the worker's failure.
AbortedByWorker == pc = "failed" /\ exc.in = "profile_func"

\* After a worker's failure the repetition has no sample, one compile was
\* tried, and nothing was saved.
WorkerFailureLeavesNoTrace ==
    (WorkerFailed \/ AbortedByWorker) =>
        /\ Len(Entry(bi).memory_footprint) = ri - 1
        /\ Len(Entry(bi).transpile_time) = ri - 1
        /\ Len(Entry(bi).total_time) = ri - 1
        /\ Len(Entry(bi).depth) = ri - 1
        /\ pool.compiles = 1
        /\ hist = <<>>

\* C16, as claimed: a worker's failure leaves no sample of the repetition, is
\* not retried and saves nothing, and it ends the run: the failure reaches
\* run_benchmarks' caller.
C16_WorkerFailureAbortsRun ==
    /\ []WorkerFailureLeavesNoTrace
    /\ WorkerFailed ~> AbortedByWorker

\* The lengths of the four per-repetition samples of case b.
Appended(b) ==
    [memory |-> Len(Entry(b).memory_footprint), transpile |-> Len(Entry(b).transpile_time),
     total |-> Len(Entry(b).total_time), depth |-> Len(Entry(b).depth)]

AllAppended(b, k) ==
    Appended(b) = [memory |-> k, transpile |-> k, total |-> k, depth |-> k]

\* C17: in repetition ri of case bi the memory sample is appended first, then
\* the two timing samples, then the depth, each after the notice of its
\* stage; the next repetition starts after the depth is appended, the cases
\* before bi have all their repetitions and the cases after it have none.
C17_PassesRunInFixedOrder ==
    /\ []((bi >= 1 /\ pc # "failed") =>
            /\ \A b \in 1..(bi - 1) : AllAppended(b, num_runs)
            /\ \A b \in (bi + 1)..full_benchmark_list : AllAppended(b, 0)
            /\ pc \in {"memory", "profiling"} => AllAppended(bi, ri - 1)
            /\ pc = "profiling" => pv.stage = "memory"
            /\ pc = "timing" =>
                  /\ Appended(bi) = [memory |-> ri, transpile |-> ri - 1,
                                     total |-> ri - 1, depth |-> ri - 1]
                  /\ pv.stage = "memory"
            /\ pc = "depth" =>
                  /\ Appended(bi) = [memory |-> ri, transpile |-> ri,
                                     total |-> ri, depth |-> ri - 1]
                  /\ pv.stage = "timing"
            /\ pc \in {"aggregate", "summary", "save", "done"} => AllAppended(bi, num_runs))
    /\ [][\A b \in 1..full_benchmark_list :
             /\ Appended(b).memory' # Appended(b).memory =>
                   (pc = "profiling" /\ pv.stage = "memory")
             /\ Appended(b).transpile' # Appended(b).transpile =>
                   (pc = "timing" /\ pv'.stage = "timing")
             /\ Appended(b).depth' # Appended(b).depth =>
                   (pc = "depth" /\ pv'.stage = "depth")]_vars

\* C17, witness: the second case is in its second repetition, between the
\* timing pass and the depth pass.
C17_Witness ==
    /\ bi = 2
    /\ ri = 2
    /\ pc = "depth"
    /\ Appended(2) = [memory |-> 2, transpile |-> 2, total |-> 2, depth |-> 1]
    /\ AllAppended(1, 2)

\* The statistics of case b are there, one entry per metric.
Aggregated(b) == Len(Entry(b).aggregate) = Len(metric_list)

\* C18, as claimed: a case has its statistics exactly from the end of its
\* last repetition on, and once it has them no sample of it grows and the
\* statistics are not computed again, whatever is called on the Runner.
C18_AggregateOnceThenFrozen ==
    /\ []((bi >= 1 /\ pc # "failed") =>
            /\ \A b \in 1..(bi - 1) : Aggregated(b)
            /\ \A b \in (bi + 1)..full_benchmark_list : Entry(b).aggregate = <<>>
            /\ pc \in {"memory", "profiling", "timing", "depth", "aggregate"} =>
                  Entry(bi).aggregate = <<>>
            /\ pc \in {"summary", "save", "done"} => Aggregated(bi))
    /\ [][\A b \in 1..full_benchmark_list :
             Entry(b).aggregate # <<>> => metric_data'.benchmarks[b] = Entry(b)]_vars

\* The record holds every case with all its repetitions and its statistics.
RecordComplete(record) ==
    /\ Len(record.benchmarks) = full_benchmark_list
    /\ \A b \in 1..Len(record.benchmarks) :
          LET e == record.benchmarks[b]
          IN /\ Len(e.memory_footprint) = num_runs
             /\ Len(e.transpile_time) = num_runs
             /\ Len(e.total_time) = num_runs
             /\ Len(e.depth) = num_runs
             /\ Len(e.build_time) = 1
             /\ Len(e.aggregate) = Len(metric_list)
             /\ \A k \in 1..Len(metric_list) : e.aggregate[k].metric = metric_list[k]

\* C19: a result file changes only in the save that ends a run whose every
\* case has all its repetitions and its statistics, and what is written is
\* that record; a run that has failed in a pass has made no save call and
\* left the result files as they were.
C19_OnlyCompleteRecordsArePersisted ==
    /\ []((pc = "failed" /\ exc.in # "save_results") =>
            (hist = <<>> /\ results_dir.runs \in {d.runs : d \in RunDirs}))
    /\ []((pc = "failed" /\ exc.in = "save_results") =>
            results_dir.runs = LastSave.before)
    /\ [][results_dir'.runs # results_dir.runs =>
             /\ pc = "save"
             /\ num_runs >= 1
             /\ RecordComplete(metric_data)
             /\ LET e == Last(hist')
                    data == JsonLoad(results_dir'.runs[e.path])
                IN /\ ~e.raised
                   /\ Last(data) = as_json(metric_data)
                   /\ \A i \in DOMAIN results_dir.runs \ {e.path} :
                         results_dir'.runs[i] = results_dir.runs[i]]_vars

\* C19, witness: a run of the largest corpus and repetition count has saved
\* its record.
C19_Witness ==
    /\ pc = "done"
    /\ full_benchmark_list = MaxCases
    /\ num_runs = MaxRuns
    /\ hist # <<>>
    /\ ~LastSave.raised
    /\ Last(JsonLoad(results_dir.runs[LastSave.path])) = as_json(metric_data)

\* C20: no compile is ever applied to a stored circuit; the object a memory
\* pass or a timing pass works on is none of the stored ones, the two differ,
\* and each is an object that did not exist before the pass.
C20_PassesCompileFreshCopies ==
    /\ [](/\ \A b \in 1..full_benchmark_list : circuits.heap[circuits.stored[b]] = 0
          /\ circuits.memory_arg \notin SeqRange(circuits.stored)
          /\ circuits.timing_arg \notin SeqRange(circuits.stored)
          /\ circuits.memory_arg # 0 => circuits.memory_arg # circuits.timing_arg)
    /\ [][/\ circuits'.stored = circuits.stored
          /\ circuits'.memory_arg # circuits.memory_arg =>
                circuits'.memory_arg > Len(circuits.heap)
          /\ circuits'.timing_arg # circuits.timing_arg =>
                circuits'.timing_arg > Len(circuits.heap)]_vars

\* C20, witness: pytket's second timing pass of a case has compiled its copy
\* in place, and the stored circuit is as it was loaded.
C20_Witness ==
    /\ pc = "depth"
    /\ ri = 2
    /\ metric_data.metadata = "pytket"
    /\ circuits.timing_arg # 0
    /\ circuits.heap[circuits.timing_arg] = 1
    /\ circuits.heap[circuits.stored[bi]] = 0

\* C21: the object a depth pass serializes was made in the same repetition,
\* after the memory pass's copy and before the depth pass, has had exactly one
\* compile applied and is no stored circuit: it is what the timing pass of
\* the repetition compiled, the in-place compiled copy for pytket and the
\* returned circuit for qiskit.
C21_DepthReadsTimedArtifact ==
    [][pc = "depth" =>
         LET ref == circuits'.serialized
         IN /\ ref > circuits.memory_arg
            /\ ref <= Len(circuits.heap)
            /\ ref >= circuits.timing_arg
            /\ circuits.heap[ref] = 1
            /\ ref \notin SeqRange(circuits.stored)
            /\ metric_data.metadata = "pytket" => ref = circuits.timing_arg
            /\ metric_data.metadata = "qiskit" => ref = circuits.timing_arg + 1]_vars

\* C21, witness: qiskit's second repetition of a case has appended the depth
\* of the circuit its transpile returned.
C21_Witness ==
    /\ pc = "aggregate"
    /\ ri = 2
    /\ metric_data.metadata = "qiskit"
    /\ Len(Entry(bi).depth) = 2
    /\ circuits.serialized = circuits.timing_arg + 1
    /\ circuits.heap[circuits.serialized] = 1
    /\ circuits.heap[circuits.timing_arg] = 0

\* C22, as claimed: with one repetition or more per case, a run ends before
\* its save only on a backend's error; and when it reaches the save, every
\* case has had its num_runs repetitions, cases times num_runs in all.
C22_RunReachesSave ==
    /\ (num_runs >= 1 /\ pc = "failed") => exc.in \in {"profile_func", "save_results"}
    /\ (num_runs >= 1 /\ pc \in {"save", "done"}) =>
          /\ pv.current_operation = full_benchmark_list * num_runs
          /\ \A b \in 1..full_benchmark_list : AllAppended(b, num_runs)

\* C23, as claimed: the index of the file a save reads or writes comes from
\* the number of files of the results directory that holds the file: a
\* primary save writes the file one past that number, a secondary save works
\* on the file of that number, and a save fails only for want of that file.
C23_IndexFromTheResultsDirectory ==
    hist # <<>> =>
        /\ ~LastSave.raised =>
              LastSave.path = LastSave.own_files + (IF IsSecondary(LastSave) THEN 0 ELSE 1)
        /\ LastSave.raised =>
              /\ IsSecondary(LastSave)
              /\ LastSave.path = LastSave.own_files
              /\ LastSave.path \notin DOMAIN LastSave.before

\* C24: during one run_benchmarks call the progress counter stays between 0
\* and total_operations, which is the number of cases times N; it counts the
\* repetitions started, one each (in repetition r of case b it is
\* (b - 1) * N + r, and b * N once the case's repetitions are over);
\* total_operations is positive whenever update_progress has been or is
\* about to be called; and the counter equals total_operations when the
\* summary is printed.
C24_ProgressCountsRepetitions ==
    /\ pv.total_operations = full_benchmark_list * num_runs
    /\ 0 <= pv.current_operation /\ pv.current_operation <= pv.total_operations
    /\ pc \in {"memory", "profiling", "timing", "depth"} =>
          /\ pv.total_operations > 0
          /\ pv.current_operation = (bi - 1) * num_runs + ri
    /\ pv.stage # "none" => pv.total_operations > 0
    /\ pc = "aggregate" => pv.current_operation = bi * num_runs
    /\ pc = "summary" => pv.current_operation = pv.total_operations

\* C24 witness: the summary is reached after several repetitions of several
\* cases, the counter at its total.
C24_Witness ==
    /\ pc = "summary"
    /\ full_benchmark_list >= 2
    /\ num_runs >= 2
    /\ pv.current_operation = full_benchmark_list * num_runs

====
